---- MODULE Spec2Model ----
(***************************************************************************)
(* rusty-adas (src/src/main.rs): four sensor workers, each polling one     *)
(* SentinelComponent, publish their status into a mutex-protected AppState *)
(* and append every status to a mutex-protected SQLite connection, while   *)
(* the foreground loop renders the AppState under the same mutex.          *)
(*                                                                         *)
(* A String is modelled as the sequence of the pieces format! joins, each  *)
(* piece a TLA+ string; the marker "DTC" is a piece of its own, so that    *)
(* str::contains is a search for a contiguous run of pieces.  A voltage    *)
(* (f64, volts) is an integer number of millivolts; the comparisons of     *)
(* detect_thermal_runaway are made exactly, and where their two sides are  *)
(* equal the f64 rounding decides: either outcome is taken.                *)
(*                                                                         *)
(* Spec is the program: the workers, the foreground loop, the two mutexes  *)
(* and the sink, whose INSERT may fail.  SpecFair is Spec under a fair     *)
(* scheduler.  SpecApi calls the AppState methods and SpecBms the          *)
(* check_status of the BMS_ECU instances directly, on any arguments.       *)
(***************************************************************************)
EXTENDS Integers, Sequences, FiniteSets, TLC

\* ------------------------------------------------------------ bounds
\* Iterations of the endless worker loops that a run may start, all workers
\* together.
MaxIter == 2
\* Direct calls of the AppState methods that a run of SpecApi may make.
MaxCalls == 3
\* Direct calls of check_status that a run of SpecBms may make.
MaxSamples == 6

\* ------------------------------------------------- program constants
LogCap == 20
HistoryCap == 10
MinSamples == 5

\* The worker threads are the indices of `sensors` (0..3 in the source).
Workers == 1..4
\* The foreground thread (main).
Reader == 5
\* No thread: the value of a free mutex's owner.
NoOwner == 0

\* ------------------------------------------------------- formatting
HexDigits ==
    <<"0", "1", "2", "3", "4", "5", "6", "7",
      "8", "9", "A", "B", "C", "D", "E", "F">>

\* {:#X}: "0x" and the upper-case hexadecimal digits.
RECURSIVE UpperHexDigits(_)
UpperHexDigits(n) ==
    IF n < 16 THEN HexDigits[n + 1]
    ELSE UpperHexDigits(n \div 16) \o HexDigits[(n % 16) + 1]

FmtHex(n) == "0x" \o UpperHexDigits(n)

\* {:.2} of a voltage: rounded to hundredths of a volt, two decimals.
FmtVolt(mv) ==
    LET cv == (mv + 5) \div 10
        frac == cv % 100
    IN  ToString(cv \div 100) \o "." \o
        (IF frac < 10 THEN "0" ELSE "") \o ToString(frac)

\* str::contains on sequences of pieces.
contains(s, pat) ==
    \E i \in 1..(Len(s) - Len(pat) + 1) :
        SubSeq(s, i, i + Len(pat) - 1) = pat

DTC == <<"DTC">>

\* --------------------------------------------------------- AppState
Initializing == <<"Initializing...">>

AppState_new ==
    [ logs |-> << >>,
      sensor_status |-> << <<6250, Initializing>>, <<10497, Initializing>>,
                           <<6251, Initializing>>, <<10498, Initializing>> >> ]

\* self.logs.push(msg)
logs_push(app, msg) == [app EXCEPT !.logs = Append(@, msg)]

\* logs_evict with the newest message removed: pop() for remove(0).
logs_evict_newest(app) ==
    IF Len(app.logs) > LogCap
    THEN [app EXCEPT !.logs = SubSeq(@, 1, Len(@) - 1)]
    ELSE app

\* if self.logs.len() > 20 { self.logs.remove(0); }
logs_evict(app) ==
    IF Len(app.logs) > LogCap THEN [app EXCEPT !.logs = Tail(@)] ELSE app

add_log(app, msg) == logs_evict(logs_push(app, msg))

\* iter_mut().find(|(sid, _)| *sid == id): the first index with that id, 0 if none.
find_sensor(ss, id) ==
    IF \E i \in 1..Len(ss) : ss[i][1] = id
    THEN CHOOSE i \in 1..Len(ss) :
            /\ ss[i][1] = id
            /\ \A j \in 1..(i - 1) : ss[j][1] # id
    ELSE 0

\* update_sensor that inserts the identity it does not find.
update_sensor_upsert(app, id, status) ==
    LET i == find_sensor(app.sensor_status, id)
    IN  IF i # 0 THEN [app EXCEPT !.sensor_status[i][2] = status]
        ELSE [app EXCEPT !.sensor_status = Append(@, <<id, status>>)]

\* update_sensor that pushes the new pair and leaves the old one.
update_sensor_push(app, id, status) ==
    [app EXCEPT !.sensor_status = Append(@, <<id, status>>)]

\* update_sensor with for_each in place of find: every entry gets the status.
update_sensor_all(app, id, status) ==
    [app EXCEPT !.sensor_status =
        [i \in 1..Len(@) |-> <<@[i][1], status>>]]

\* update_sensor whose find takes the first entry whatever its id.
update_sensor_first(app, id, status) ==
    [app EXCEPT !.sensor_status[1][2] = status]

update_sensor(app, id, status) ==
    LET i == find_sensor(app.sensor_status, id)
    IN  IF i # 0 THEN [app EXCEPT !.sensor_status[i][2] = status] ELSE app

\* ---------------------------------------------------------- sensors
sensors ==
    << [kind |-> "BMS_ECU", can_id |-> 6250, module_name |-> ""],
       [kind |-> "ADAS_Computer", can_id |-> 10497, module_name |-> "Front_Radar"],
       [kind |-> "BMS_ECU", can_id |-> 6251, module_name |-> ""],
       [kind |-> "ADAS_Computer", can_id |-> 10498, module_name |-> "Lane_Cam"] >>

get_id(w) == sensors[w].can_id

\* The workers whose sensor is a BMS_ECU (lines 123, 125).
BmsWorkers == {w \in Workers : sensors[w].kind = "BMS_ECU"}

RECURSIVE SumSeq(_)
SumSeq(s) == IF s = << >> THEN 0 ELSE Head(s) + SumSeq(Tail(s))

\* history_push that evicts one sample late: > for >=.
history_push_late(data, cell_voltage) ==
    Append(IF Len(data) > HistoryCap THEN Tail(data) ELSE data, cell_voltage)

\* The window after the new sample: remove(0) at 10 samples, then push.
history_push(data, cell_voltage) ==
    Append(IF Len(data) >= HistoryCap THEN Tail(data) ELSE data, cell_voltage)

\* std_dev > 0.05 && (cell_voltage - mean).abs() > 2.0 * std_dev on the window
\* `data` (millivolts), in exact arithmetic.  With n = len, S = sum and
\* Q = sum of (S - n*v)^2 (a multiple of n) the variance is Q / n^3, so the two
\* tests are Q > 50^2 * n^3 and (n*v - S)^2 > 4 * Q / n.  Where the two sides of
\* a test are equal in exact arithmetic the f64 rounding of sum, division and
\* sqrt decides it: `ulp` is TRUE when the rounding makes the left side greater.
runaway_test(data, cell_voltage, ulp) ==
    \E n \in {Len(data)}, S \in {SumSeq(data)} :
        \E Q \in {SumSeq([i \in 1..n |-> (S - n * data[i]) * (S - n * data[i])])},
           d \in {n * cell_voltage - S} :
            /\ \/ Q > 2500 * n * n * n
               \/ Q = 2500 * n * n * n /\ ulp
            /\ \/ d * d > 4 * (Q \div n)
               \/ d * d = 4 * (Q \div n) /\ ulp

\* detect_thermal_runaway whose early return of line 68 is `return true`.
detect_thermal_runaway_early(data, cell_voltage, ulp) ==
    LET next == history_push(data, cell_voltage)
    IN  [ history |-> next,
          fault |-> IF Len(next) < MinSamples THEN TRUE
                    ELSE runaway_test(next, cell_voltage, ulp) ]

\* detect_thermal_runaway: the new history and the verdict.
detect_thermal_runaway(data, cell_voltage, ulp) ==
    LET next == history_push(data, cell_voltage)
    IN  [ history |-> next,
          fault |-> IF Len(next) < MinSamples THEN FALSE
                    ELSE runaway_test(next, cell_voltage, ulp) ]

BMS_fault_status(voltage) ==
    <<"DTC", " P0A80: Cell Imbalance Detected! (", FmtVolt(voltage), "V)">>

BMS_nominal_status(voltage) ==
    <<"Cell Voltage: ", FmtVolt(voltage), "V (Optimal)">>

\* BMS_ECU::check_status for the drawn voltage: the new history and the status.
BMS_check_status(data, voltage, ulp) ==
    LET r == detect_thermal_runaway(data, voltage, ulp)
    IN  [ history |-> r.history,
          status |-> IF r.fault THEN BMS_fault_status(voltage)
                     ELSE BMS_nominal_status(voltage) ]

ADAS_fault_status == <<"DTC", " C1A67: Sensor Blind / Occluded">>

\* ADAS_Computer::check_status for the drawn outcome: 0 is gen_bool(0.1) = true,
\* any other value the confidence drawn from 95..100.
ADAS_check_status(module_name, draw) ==
    IF draw = 0 THEN ADAS_fault_status
    ELSE <<"Tracking [", module_name, "]: Confidence ", ToString(draw), "%">>

\* sensor.check_status() through the trait object of worker w; `draw` is what
\* the random source gives (a voltage, or the ADAS outcome).
check_status(w, data, draw, ulp) ==
    IF sensors[w].kind = "BMS_ECU" THEN BMS_check_status(data, draw, ulp)
    ELSE [history |-> data, status |-> ADAS_check_status(sensors[w].module_name, draw)]

\* format!("[CAN ID {:#X}] {}", id, status)
log_message(id, status) == <<"[CAN ID ", FmtHex(id), "] ">> \o status

\* format!("CAN ID {:#X}: {}", id, msg)
status_item(id, msg) == <<"CAN ID ", FmtHex(id), ": ">> \o msg

\* ------------------------------------------------------------ state
VARIABLES
    app,          \* the AppState behind app_state
    app_owner,    \* the thread holding the app_state mutex, NoOwner if free
    db_owner,     \* the thread holding the db_lock mutex, NoOwner if free
    db_poisoned,  \* a thread panicked while holding the db_lock guard
    sink,         \* the rows of sensor_logs, in insertion order
    history,      \* worker -> the history of its BMS_ECU (empty for ADAS)
    pc,           \* worker -> its place in the loop body
    status,       \* worker -> its local `status`
    budget,       \* iterations that may still start (bounds the run)
    rpc,          \* the foreground thread's place
    view,         \* what the foreground thread last put on the frame
    evals,        \* history variable: worker -> every draw and the status returned
    appended,     \* history variable: every message handed to add_log
    call          \* history variable: the last direct call of an AppState method

vars == <<app, app_owner, db_owner, db_poisoned, sink, history, pc, status,
          budget, rpc, view, evals, appended, call>>

\* The inputs the random source may produce.
Voltages == {2500, 4000}
AdasDraws == {0, 97}
Draws(w) == IF sensors[w].kind = "BMS_ECU" THEN Voltages ELSE AdasDraws

NoView == [status_items |-> << >>, log_items |-> << >>]
NoCall == [op |-> "none"]

\* ---------------------------------------------------------- workers
\* Lines 137-141: sleep, check_status, get_id.
Evaluate(w) ==
    /\ pc[w] = "sleep"
    /\ budget > 0
    /\ \E d \in Draws(w), ulp \in BOOLEAN :
          LET r == check_status(w, history[w], d, ulp)
          IN  /\ history' = [history EXCEPT ![w] = r.history]
              /\ status' = [status EXCEPT ![w] = r.status]
              /\ evals' = [evals EXCEPT ![w] = Append(@, [draw |-> d, status |-> r.status])]
    /\ budget' = budget - 1
    /\ pc' = [pc EXCEPT ![w] = "lock_app"]
    /\ UNCHANGED <<app, app_owner, db_owner, db_poisoned, sink, rpc, view, appended, call>>

\* A lock that never blocks.
may_lock_always(owner) == TRUE

\* A thread may take a mutex that no thread holds.
may_lock(owner) == owner = NoOwner

\* Line 144: app_ref.lock().unwrap().
LockApp(w) ==
    /\ pc[w] = "lock_app"
    /\ may_lock(app_owner)
    /\ app_owner' = w
    /\ pc' = [pc EXCEPT ![w] = "update"]
    /\ UNCHANGED <<app, db_owner, db_poisoned, sink, history, status, budget,
                   rpc, view, evals, appended, call>>

\* The branch of line 147 taken for every status.
is_fault_always(s) == TRUE

\* The branch of line 147.
is_fault(s) == contains(s, DTC)

\* UpdateSensor with update_sensor moved into the branch of line 147.
UpdateSensor_faults_only(w) ==
    /\ pc[w] = "update"
    /\ app' = IF is_fault(status[w]) THEN update_sensor(app, get_id(w), status[w])
              ELSE app
    /\ pc' = [pc EXCEPT ![w] = IF is_fault(status[w]) THEN "add_log" ELSE "unlock_app"]
    /\ UNCHANGED <<app_owner, db_owner, db_poisoned, sink, history, status, budget,
                   rpc, view, evals, appended, call>>

\* UpdateSensor with the block of lines 143-150 ended after update_sensor: the
\* guard is dropped before the test of the marker.
UpdateSensor_then_unlock(w) ==
    /\ pc[w] = "update"
    /\ app' = update_sensor(app, get_id(w), status[w])
    /\ app_owner' = NoOwner
    /\ pc' = [pc EXCEPT ![w] = IF is_fault(status[w]) THEN "add_log" ELSE "unlock_app"]
    /\ UNCHANGED <<db_owner, db_poisoned, sink, history, status, budget,
                   rpc, view, evals, appended, call>>

\* Lines 145-147: update_sensor, then the test of the marker.
UpdateSensor(w) ==
    /\ pc[w] = "update"
    /\ app' = update_sensor(app, get_id(w), status[w])
    /\ pc' = [pc EXCEPT ![w] = IF is_fault(status[w]) THEN "add_log" ELSE "unlock_app"]
    /\ UNCHANGED <<app_owner, db_owner, db_poisoned, sink, history, status, budget,
                   rpc, view, evals, appended, call>>

\* Lines 148, 39: the push of add_log.
AddLogPush(w) ==
    /\ pc[w] = "add_log"
    /\ app' = logs_push(app, log_message(get_id(w), status[w]))
    /\ appended' = Append(appended, log_message(get_id(w), status[w]))
    /\ pc' = [pc EXCEPT ![w] = "evict"]
    /\ UNCHANGED <<app_owner, db_owner, db_poisoned, sink, history, status, budget,
                   rpc, view, evals, call>>

\* Lines 40-42: the eviction of add_log.
AddLogEvict(w) ==
    /\ pc[w] = "evict"
    /\ app' = logs_evict(app)
    /\ pc' = [pc EXCEPT ![w] = "unlock_app"]
    /\ UNCHANGED <<app_owner, db_owner, db_poisoned, sink, history, status, budget,
                   rpc, view, evals, appended, call>>

\* The guard `app` declared outside the block: it lives to the end of the loop body.
app_guard_kept(w) == w

\* The owner of the app_state mutex once the block of lines 143-150 ends: the
\* guard `app` is a local of the block.
app_guard_at_block_end(w) == NoOwner

\* UnlockApp that starts the loop over: the INSERT is skipped.
UnlockApp_then_sleep(w) ==
    /\ pc[w] = "unlock_app"
    /\ app_owner' = app_guard_at_block_end(w)
    /\ pc' = [pc EXCEPT ![w] = "sleep"]
    /\ UNCHANGED <<app, db_owner, db_poisoned, sink, history, status, budget,
                   rpc, view, evals, appended, call>>

\* Line 150: the guard `app` goes out of scope.
UnlockApp(w) ==
    /\ pc[w] = "unlock_app"
    /\ app_owner' = app_guard_at_block_end(w)
    /\ pc' = [pc EXCEPT ![w] = "lock_db"]
    /\ UNCHANGED <<app, db_owner, db_poisoned, sink, history, status, budget,
                   rpc, view, evals, appended, call>>

\* Line 152: db_ref.lock().unwrap(); a poisoned mutex makes unwrap panic.
LockDb(w) ==
    /\ pc[w] = "lock_db"
    /\ may_lock(db_owner)
    /\ IF db_poisoned
       THEN /\ pc' = [pc EXCEPT ![w] = "panicked"]
            /\ UNCHANGED db_owner
       ELSE /\ pc' = [pc EXCEPT ![w] = "execute"]
            /\ db_owner' = w
    /\ UNCHANGED <<app, app_owner, db_poisoned, sink, history, status, budget,
                   rpc, view, evals, appended, call>>

\* ExecuteOk that runs the INSERT twice.
ExecuteOk_twice(w) ==
    /\ pc[w] = "execute"
    /\ sink' = sink \o << [sensor_id |-> get_id(w), message |-> status[w]],
                          [sensor_id |-> get_id(w), message |-> status[w]] >>
    /\ db_owner' = NoOwner
    /\ pc' = [pc EXCEPT ![w] = "sleep"]
    /\ UNCHANGED <<app, app_owner, db_poisoned, history, status, budget,
                   rpc, view, evals, appended, call>>

\* ExecuteOk whose guard `conn` is never dropped.
ExecuteOk_guard_leaked(w) ==
    /\ pc[w] = "execute"
    /\ sink' = Append(sink, [sensor_id |-> get_id(w), message |-> status[w]])
    /\ pc' = [pc EXCEPT ![w] = "sleep"]
    /\ UNCHANGED <<app, app_owner, db_owner, db_poisoned, history, status, budget,
                   rpc, view, evals, appended, call>>

\* ExecuteOk with the INSERT moved into the branch of line 147: only a fault
\* status gets its row.
ExecuteOk_faults_only(w) ==
    /\ pc[w] = "execute"
    /\ sink' = IF is_fault(status[w])
               THEN Append(sink, [sensor_id |-> get_id(w), message |-> status[w]])
               ELSE sink
    /\ db_owner' = NoOwner
    /\ pc' = [pc EXCEPT ![w] = "sleep"]
    /\ UNCHANGED <<app, app_owner, db_poisoned, history, status, budget,
                   rpc, view, evals, appended, call>>

\* Lines 153-154: the INSERT succeeds; the guard `conn` goes out of scope at the
\* end of the loop body and the loop starts over.
ExecuteOk(w) ==
    /\ pc[w] = "execute"
    /\ sink' = Append(sink, [sensor_id |-> get_id(w), message |-> status[w]])
    /\ db_owner' = NoOwner
    /\ pc' = [pc EXCEPT ![w] = "sleep"]
    /\ UNCHANGED <<app, app_owner, db_poisoned, history, status, budget,
                   rpc, view, evals, appended, call>>

\* ExecuteErr that drops the error and goes on with the loop.
ExecuteErr_continue(w) ==
    /\ pc[w] = "execute"
    /\ db_owner' = NoOwner
    /\ pc' = [pc EXCEPT ![w] = "sleep"]
    /\ UNCHANGED <<app, app_owner, db_poisoned, sink, history, status, budget,
                   rpc, view, evals, appended, call>>

\* Line 153: the INSERT fails and unwrap panics; the unwinding drops the guard
\* `conn`, which poisons the mutex.
ExecuteErr(w) ==
    /\ pc[w] = "execute"
    /\ db_poisoned' = TRUE
    /\ db_owner' = NoOwner
    /\ pc' = [pc EXCEPT ![w] = "panicked"]
    /\ UNCHANGED <<app, app_owner, sink, history, status, budget, rpc, view,
                   evals, appended, call>>

\* ------------------------------------------------- foreground thread
\* Line 171: app_state.lock().unwrap() inside the draw closure.
ReaderLock ==
    /\ rpc = "draw"
    /\ may_lock(app_owner)
    /\ app_owner' = Reader
    /\ rpc' = "status_items"
    /\ UNCHANGED <<app, db_owner, db_poisoned, sink, history, pc, status, budget,
                   view, evals, appended, call>>

\* Lines 173-179.
ReadStatus ==
    /\ rpc = "status_items"
    /\ view' = [view EXCEPT !.status_items =
                    [i \in 1..Len(app.sensor_status) |->
                        status_item(app.sensor_status[i][1], app.sensor_status[i][2])]]
    /\ rpc' = "log_items"
    /\ UNCHANGED <<app, app_owner, db_owner, db_poisoned, sink, history, pc,
                   status, budget, evals, appended, call>>

\* Lines 181-187.
ReadLogs ==
    /\ rpc = "log_items"
    /\ view' = [view EXCEPT !.log_items = app.logs]
    /\ rpc' = "end_draw"
    /\ UNCHANGED <<app, app_owner, db_owner, db_poisoned, sink, history, pc,
                   status, budget, evals, appended, call>>

\* Lines 188-196: the closure returns, its items and its guard are dropped; then
\* the poll finds no key, or a key other than q, and the loop draws again.  (On q,
\* or an io error, main returns and the process ends with every thread where it
\* is: the behaviour stutters from then on.)
ReaderUnlock ==
    /\ rpc = "end_draw"
    /\ app_owner' = NoOwner
    /\ view' = NoView
    /\ rpc' = "draw"
    /\ UNCHANGED <<app, db_owner, db_poisoned, sink, history, pc, status, budget,
                   evals, appended, call>>

\* ------------------------------------------------------ specification
\* The data a worker's iteration works on, right after construction
\* (lines 113-128).
Constructed ==
    [ app |-> AppState_new,
      sink |-> << >>,
      history |-> [w \in Workers |-> << >>],
      status |-> [w \in Workers |-> << >>],
      evals |-> [w \in Workers |-> << >>],
      appended |-> << >> ]

\* One whole iteration of worker w's loop body (lines 137-154) on draw d, run
\* from sleep to sleep with no other thread in between and a successful INSERT.
run_iteration(st, w, d) ==
    LET r == check_status(w, st.history[w], d, FALSE)
        id == get_id(w)
        updated == update_sensor(st.app, id, r.status)
        fault == is_fault(r.status)
    IN  [ app |-> IF fault THEN add_log(updated, log_message(id, r.status))
                  ELSE updated,
          sink |-> Append(st.sink, [sensor_id |-> id, message |-> r.status]),
          history |-> [st.history EXCEPT ![w] = r.history],
          status |-> [st.status EXCEPT ![w] = r.status],
          evals |-> [st.evals EXCEPT ![w] = Append(@, [draw |-> d, status |-> r.status])],
          appended |-> IF fault THEN Append(st.appended, log_message(id, r.status))
                       ELSE st.appended ]

\* The data after the iterations `run` (pairs <<worker, draw>>), one after the
\* other: the sink holds one row for each iteration done.
RECURSIVE run_all(_, _)
run_all(st, run) ==
    LET done == Len(st.sink)
    IN  IF done >= Len(run) THEN st
        ELSE run_all(run_iteration(st, run[done + 1][1], run[done + 1][2]), run)

after_runs(run) == run_all(Constructed, run)

\* A program that has been running: Front_Radar has reported LogCap - 1 faults
\* and the first BMS_ECU has taken HistoryCap - 1 samples of 4.0 V.
LongRun ==
    [i \in 1..(LogCap - 1) |-> <<2, 0>>] \o
    [i \in 1..(HistoryCap - 1) |-> <<1, 4000>>]

\* The runs a behaviour starts after: none (the program has just been started), or
\* LongRun.  Every worker is in its sleep and the foreground loop between frames.
Starts == { << >>, LongRun }

InitData ==
    /\ \E run \in Starts :
          LET st == after_runs(run)
          IN  /\ app = st.app
              /\ sink = st.sink
              /\ history = st.history
              /\ status = st.status
              /\ evals = st.evals
              /\ appended = st.appended
    /\ app_owner = NoOwner
    /\ db_owner = NoOwner
    /\ db_poisoned = FALSE
    /\ pc = [w \in Workers |-> "sleep"]
    /\ rpc = "draw"
    /\ view = NoView
    /\ call = NoCall

Init == InitData /\ budget = MaxIter

WorkerStep(w) ==
    \/ Evaluate(w)
    \/ LockApp(w)
    \/ UpdateSensor(w)
    \/ AddLogPush(w)
    \/ AddLogEvict(w)
    \/ UnlockApp(w)
    \/ LockDb(w)
    \/ ExecuteOk(w)
    \/ ExecuteErr(w)

ReaderStep ==
    \/ ReaderLock
    \/ ReadStatus
    \/ ReadLogs
    \/ ReaderUnlock

Next == (\E w \in Workers : WorkerStep(w)) \/ ReaderStep

Spec == Init /\ [][Next]_vars

\* The scheduler lets every thread that can take a step take one (the sleep of
\* line 138 and the poll of line 190 end), and a worker that asks for a mutex
\* which is free again and again gets it.
Fairness ==
    /\ \A w \in Workers :
          /\ WF_vars(WorkerStep(w))
          /\ SF_vars(LockApp(w))
          /\ SF_vars(LockDb(w))
    /\ WF_vars(ReaderStep)

SpecFair == Init /\ [][Next]_vars /\ Fairness

\* ------------------------------------------- the AppState methods alone
\* The identities a caller may pass: the four of AppState::new and two others.
ApiIds == {6250, 10497, 6251, 10498, 0, 4660}
ApiStatuses == {ADAS_fault_status, BMS_nominal_status(4000)}
ApiMessages == {log_message(10498, ADAS_fault_status),
                log_message(6251, BMS_fault_status(2500))}

\* app.update_sensor(id, status), called directly.
ApiUpdateSensor ==
    /\ budget > 0
    /\ \E id \in ApiIds, st \in ApiStatuses :
          /\ app' = update_sensor(app, id, st)
          /\ call' = [op |-> "update_sensor", id |-> id, status |-> st, before |-> app]
    /\ budget' = budget - 1
    /\ UNCHANGED <<app_owner, db_owner, db_poisoned, sink, history, pc, status,
                   rpc, view, evals, appended>>

\* app.add_log(msg), called directly.
ApiAddLog ==
    /\ budget > 0
    /\ \E msg \in ApiMessages :
          /\ app' = add_log(app, msg)
          /\ appended' = Append(appended, msg)
          /\ call' = [op |-> "add_log", msg |-> msg, before |-> app]
    /\ budget' = budget - 1
    /\ UNCHANGED <<app_owner, db_owner, db_poisoned, sink, history, pc, status,
                   rpc, view, evals>>

ApiInit == InitData /\ budget = MaxCalls

ApiNext == ApiUpdateSensor \/ ApiAddLog

\* Any sequence of direct calls on an AppState the program has built.
SpecApi == ApiInit /\ [][ApiNext]_vars

\* ------------------------------------------- BMS_ECU::check_status alone
\* The voltages a caller may make the random source give: the injected 2.5 V,
\* and 4.0 V and 4.05 V of the nominal range.
BmsSamples == {2500, 4000, 4050}

\* sensor.check_status() on a BMS_ECU, called directly with a chosen voltage.
ApiCheckStatus ==
    /\ budget > 0
    /\ \E w \in BmsWorkers, v \in BmsSamples, ulp \in BOOLEAN :
          LET r == check_status(w, history[w], v, ulp)
          IN  /\ history' = [history EXCEPT ![w] = r.history]
              /\ status' = [status EXCEPT ![w] = r.status]
              /\ evals' = [evals EXCEPT ![w] = Append(@, [draw |-> v, status |-> r.status])]
              /\ call' = [op |-> "check_status", w |-> w, draw |-> v,
                          before |-> history[w]]
    /\ budget' = budget - 1
    /\ UNCHANGED <<app, app_owner, db_owner, db_poisoned, sink, pc, rpc, view, appended>>

BmsInit == InitData /\ budget = MaxSamples

BmsNext == ApiCheckStatus

\* Any sequence of evaluations of the two BMS_ECU instances, on any voltages.
SpecBms == BmsInit /\ [][BmsNext]_vars

\* ------------------------------------------------------------ claims
Min(a, b) == IF a < b THEN a ELSE b

\* The last n elements of s.
LastN(s, n) == SubSeq(s, Len(s) - n + 1, Len(s))

\* The identities AppState::new starts with.
StartupIds == {AppState_new.sensor_status[i][1] : i \in 1..Len(AppState_new.sensor_status)}

\* The messages the status table holds for identity id.
Entries(id) ==
    {app.sensor_status[i][2] :
        i \in {j \in 1..Len(app.sensor_status) : app.sensor_status[j][1] = id}}

\* The status of worker w's latest evaluation, and of the one before it.
LastStatus(w) ==
    IF evals[w] = << >> THEN Initializing ELSE evals[w][Len(evals[w])].status

PrevStatus(w) ==
    IF Len(evals[w]) <= 1 THEN Initializing ELSE evals[w][Len(evals[w]) - 1].status

\* Worker w has evaluated and its update_sensor call has not returned yet.
UpdatePending(w) == pc[w] \in {"lock_app", "update"}

\* The threads inside the block that the app_state guard covers.
InCriticalSection ==
    {w \in Workers : pc[w] \in {"update", "add_log", "evict", "unlock_app"}} \cup
    (IF rpc \in {"status_items", "log_items", "end_draw"} THEN {Reader} ELSE {})

\* What one frame shows of the AppState a.
Rendered(a) ==
    [ status_items |-> [i \in 1..Len(a.sensor_status) |->
                           status_item(a.sensor_status[i][1], a.sensor_status[i][2])],
      log_items |-> a.logs ]

\* C1: no update is lost: once every update_sensor call issued so far has
\* returned, the entry of each identity whose worker has issued calls is the last
\* message that worker issued.
C1_NoLostUpdate ==
    (\A w \in Workers : ~UpdatePending(w)) =>
        \A w \in Workers :
            evals[w] # << >> => Entries(sensors[w].can_id) = {LastStatus(w)}

\* Two workers have issued calls, one of them several with the last two messages
\* different and the other its first call, and every call has returned.
C1_Witness ==
    /\ \A w \in Workers : ~UpdatePending(w)
    /\ \E w1, w2 \in Workers :
          /\ w1 # w2
          /\ Len(evals[w1]) >= 2
          /\ Len(evals[w2]) = 1
          /\ LastStatus(w1) # PrevStatus(w1)
          /\ evals[w2] # << >>
          /\ Entries(sensors[w1].can_id) = {LastStatus(w1)}

\* C2: at most one thread is inside the critical section of the shared state, and
\* the reader's frame is a snapshot of one AppState: never more than 20 log items,
\* and at the end of the draw exactly the status table and the log as they are.
C2_MutualExclusion ==
    /\ Cardinality(InCriticalSection) <= 1
    /\ Len(view.log_items) <= LogCap
    /\ rpc = "end_draw" => view = Rendered(app)

\* The reader has a frame with a full log while a worker waits for the lock with
\* a fault status, the 21st message.
C2_Witness ==
    /\ rpc = "end_draw"
    /\ Len(view.log_items) = LogCap
    /\ \E w \in Workers : pc[w] = "lock_app" /\ contains(status[w], DTC)

\* C3: no worker holds the app_state mutex and the db_lock mutex together: it
\* has released the first when it requests the second, and holds no db_lock when
\* it requests the first.
C3_NeverBothLocks ==
    \A w \in Workers :
        /\ ~(app_owner = w /\ db_owner = w)
        /\ pc[w] = "lock_db" => app_owner # w
        /\ pc[w] = "lock_app" => db_owner # w

\* Both mutexes are held, by two workers.
C3_Witness ==
    \E w1, w2 \in Workers : w1 # w2 /\ app_owner = w1 /\ db_owner = w2

\* C4: whenever no add_log call is between its push and its eviction, the log is
\* the last min(k, 20) of the k messages appended so far, in append order; and it
\* has at most 20 messages whenever the lock is free.
C4_LogIsLastAppended ==
    /\ (\A w \in Workers : pc[w] # "evict") =>
            app.logs = LastN(appended, Min(Len(appended), LogCap))
    /\ app_owner = NoOwner => Len(app.logs) <= LogCap

\* More than 20 messages have been appended, the last two of them different.
C4_Witness ==
    /\ \A w \in Workers : pc[w] # "evict"
    /\ app_owner = NoOwner
    /\ Len(appended) > LogCap
    /\ appended[Len(appended)] # appended[Len(appended) - 1]
    /\ app.logs[LogCap] = appended[Len(appended)]

\* The voltages worker w's BMS_ECU has sampled, in arrival order.
Samples(w) == [i \in 1..Len(evals[w]) |-> evals[w][i].draw]

\* C5: the history of a BMS_ECU is the last min(k, 10) of its k samples, in
\* arrival order.
C5_HistoryIsLastSamples ==
    \A w \in BmsWorkers :
        history[w] = LastN(Samples(w), Min(Len(evals[w]), HistoryCap))

\* An 11th sample has arrived: the history has 10 samples, starts with the 2nd
\* sample and is not the first 10 samples.
C5_Witness ==
    \E w \in BmsWorkers :
        /\ Len(evals[w]) = HistoryCap + 1
        /\ Len(history[w]) = HistoryCap
        /\ history[w] # SubSeq(Samples(w), 1, HistoryCap)
        /\ history[w][HistoryCap] # history[w][HistoryCap - 1]

\* C6: update_sensor with an identity that is not a startup identity returns
\* with the AppState as it was: no entry added, no message and no log changed.
C6_UnknownIdNoOp ==
    (call.op = "update_sensor" /\ call.id \notin StartupIds) => app = call.before

\* update_sensor was called with an unknown identity on an AppState with a log and
\* a status other than the initial one.
C6_Witness ==
    /\ call.op = "update_sensor"
    /\ call.id \notin StartupIds
    /\ app.logs # << >>
    /\ \E id \in StartupIds : Entries(id) # {Initializing}

\* C7: the status table holds the four startup identities 0x186A, 0x2901,
\* 0x186B, 0x2902, once each and in this order.
C7_IdentitiesFixed ==
    [i \in 1..Len(app.sensor_status) |-> app.sensor_status[i][1]] =
        <<6250, 10497, 6251, 10498>>

\* Every entry has been overwritten and the log is not empty.
C7_Witness ==
    /\ \A id \in StartupIds : Entries(id) # {Initializing}
    /\ app.logs # << >>

\* C8 as stated: the entry of each identity is the status of its sensor's latest
\* completed evaluation, the initial value if there is none.
C8_EntryIsLatestEvaluation ==
    \A w \in Workers : Entries(sensors[w].can_id) = {LastStatus(w)}

\* C8, amended: the entry of each identity is the status of its sensor's latest
\* completed evaluation, except from the return of check_status to the return of
\* update_sensor, when it is the status of the evaluation before (the initial
\* value if there is none).
C8_EntryIsLatestPublished ==
    \A w \in Workers :
        Entries(sensors[w].can_id) =
            {IF UpdatePending(w) THEN PrevStatus(w) ELSE LastStatus(w)}

\* A worker waits for the lock with a new status that differs from its entry.
C8_Witness ==
    \E w \in Workers :
        /\ pc[w] = "lock_app"
        /\ Len(evals[w]) >= 2
        /\ LastStatus(w) # PrevStatus(w)
        /\ Entries(sensors[w].can_id) = {PrevStatus(w)}

\* The rows of the sink that carry worker w's identity.
SinkRowsOf(w) == SelectSeq(sink, LAMBDA r : r.sensor_id = sensors[w].can_id)

\* The messages of the trouble log's history that carry worker w's identity.
AppendedBy(w) ==
    SelectSeq(appended,
              LAMBDA m : SubSeq(m, 1, 3) = log_message(sensors[w].can_id, << >>))

\* The evaluations of worker w whose status carries the marker.
FaultEvals(es) == SelectSeq(es, LAMBDA e : contains(e.status, DTC))

\* C9: in each worker the steps of an iteration come in the order evaluate,
\* update_sensor, add_log (for a fault), INSERT: an evaluation starts only when
\* every earlier status of the worker has its sink row; the entry is overwritten
\* with the evaluated status before its sink row exists; a message is appended to
\* the log when the entry already holds its status; and a sink row is written when
\* the entry holds its status and the log has had every fault of the worker.
C9_StepsInOrder ==
    [][\A w \in Workers :
          /\ evals'[w] # evals[w] => Len(SinkRowsOf(w)) = Len(evals[w])
          /\ Entries(sensors[w].can_id)' # Entries(sensors[w].can_id) =>
                /\ Entries(sensors[w].can_id)' = {LastStatus(w)}
                /\ Len(SinkRowsOf(w)) = Len(evals[w]) - 1
          /\ (/\ appended' # appended
              /\ SubSeq(appended'[Len(appended')], 1, 3) =
                    log_message(sensors[w].can_id, << >>)) =>
                /\ Entries(sensors[w].can_id) = {LastStatus(w)}
                /\ Len(SinkRowsOf(w)) = Len(evals[w]) - 1
          /\ (sink' # sink /\ sink'[Len(sink')].sensor_id = sensors[w].can_id) =>
                /\ Entries(sensors[w].can_id) = {LastStatus(w)}
                /\ sink'[Len(sink')].message = LastStatus(w)
                /\ Len(AppendedBy(w)) = Len(FaultEvals(evals[w]))
                /\ Len(SinkRowsOf(w)) = Len(evals[w]) - 1
      ]_vars

\* A worker has gone twice through the loop, the second time with a fault, and is
\* back in its sleep with both sink rows written.
C9_Witness ==
    \E w \in Workers :
        /\ pc[w] = "sleep"
        /\ Len(evals[w]) = 2
        /\ Len(SinkRowsOf(w)) = 2
        /\ contains(LastStatus(w), DTC)
        /\ ~contains(PrevStatus(w), DTC)
        /\ Len(AppendedBy(w)) = 1

\* The evaluations of worker w whose critical section is over.
Published(w) ==
    IF pc[w] \in {"lock_app", "update", "add_log"}
    THEN SubSeq(evals[w], 1, Len(evals[w]) - 1)
    ELSE evals[w]

\* C10: a status is appended to the trouble log iff it carries the marker "DTC":
\* the messages appended for a worker are the fault statuses it has published,
\* each once and in order, and every message of the log carries the marker.
C10_LoggedIffFault ==
    /\ \A i \in 1..Len(app.logs) : contains(app.logs[i], DTC)
    /\ \A i \in 1..Len(appended) : contains(appended[i], DTC)
    /\ \A w \in Workers :
          LET f == FaultEvals(Published(w))
          IN  AppendedBy(w) =
                [i \in 1..Len(f) |-> log_message(sensors[w].can_id, f[i].status)]

\* The log has a fault of a BMS_ECU and one of an ADAS_Computer, and a worker
\* that has published a nominal status and then a fault is back in its sleep.
C10_Witness ==
    /\ \E w \in BmsWorkers : AppendedBy(w) # << >>
    /\ \E w \in Workers \ BmsWorkers : AppendedBy(w) # << >>
    /\ \E w \in Workers :
          /\ pc[w] = "sleep"
          /\ contains(LastStatus(w), DTC)
          /\ ~contains(PrevStatus(w), DTC)
          /\ Len(evals[w]) >= 2
          /\ Len(AppendedBy(w)) = Len(FaultEvals(evals[w]))

\* The number of iterations worker w has completed: every evaluation but the one
\* of the iteration it is in.
Completed(w) == IF pc[w] = "sleep" THEN Len(evals[w]) ELSE Len(evals[w]) - 1

\* The records the completed iterations of worker w have to leave in the sink.
CompletedRecords(w) ==
    [i \in 1..Completed(w) |->
        [sensor_id |-> sensors[w].can_id, message |-> evals[w][i].status]]

\* C11: the sink append is unconditional and the sink append-only: every step
\* leaves the sink as it is or adds one record at its end; the step that completes
\* an iteration of a worker adds the record (sensor id, status) of that iteration,
\* fault or nominal; and the records of each worker are, one for one and in order,
\* the statuses of its completed iterations (an iteration whose INSERT failed is
\* not completed).
C11_SinkAppendUnconditional ==
    [][/\ \/ sink' = sink
          \/ /\ Len(sink') = Len(sink) + 1
             /\ SubSeq(sink', 1, Len(sink)) = sink
       /\ \A w \in Workers :
             /\ (pc[w] # "sleep" /\ pc'[w] = "sleep") =>
                    sink' = Append(sink, [sensor_id |-> sensors[w].can_id,
                                          message |-> LastStatus(w)])
             /\ SinkRowsOf(w) = CompletedRecords(w)
             /\ SinkRowsOf(w)' = CompletedRecords(w)'
      ]_vars

\* One worker has completed an iteration with a nominal status and another one
\* with a fault status, and the sink ends with the two records.
C11_Witness ==
    \E w1, w2 \in Workers :
        /\ pc[w1] = "sleep" /\ pc[w2] = "sleep"
        /\ Len(sink) >= 2
        /\ sink[Len(sink) - 1] = [sensor_id |-> sensors[w1].can_id, message |-> LastStatus(w1)]
        /\ sink[Len(sink)] = [sensor_id |-> sensors[w2].can_id, message |-> LastStatus(w2)]
        /\ ~contains(LastStatus(w1), DTC)
        /\ contains(LastStatus(w2), DTC)

\* C12: a BMS_ECU reports no fault while its history, the new sample included,
\* has fewer than 5 samples: each of the first four evaluations of an instance
\* returns the nominal "Cell Voltage" status of the sampled voltage.
C12_NoFaultBelowFiveSamples ==
    \A w \in BmsWorkers :
        /\ \A i \in 1..Min(Len(evals[w]), MinSamples - 1) :
              evals[w][i].status = BMS_nominal_status(evals[w][i].draw)
        /\ (call.op = "check_status" /\ call.w = w /\ Len(history[w]) < MinSamples) =>
              ~contains(status[w], DTC)

\* The fourth evaluation of an instance has sampled 2.5 V after three samples of
\* 4.0 V.
C12_Witness ==
    /\ call.op = "check_status"
    /\ Samples(call.w) = <<4000, 4000, 4000, 2500>>
    /\ history[call.w] = Samples(call.w)

\* n * n times the population variance of the window: n * (sum of the squares)
\* minus the square of the sum.
VarianceN2(win) ==
    Len(win) * SumSeq([i \in 1..Len(win) |-> win[i] * win[i]]) -
        SumSeq(win) * SumSeq(win)

\* The population standard deviation of the window exceeds 0.05 V (50 mV).
StdDevAboveFloor(win) == VarianceN2(win) > 2500 * Len(win) * Len(win)

\* n times the deviation of the window's newest sample from the window's mean.
DeviationN(win) == Len(win) * win[Len(win)] - SumSeq(win)

\* The newest sample deviates from the mean by more than twice the population
\* standard deviation.
DeviatesTwoSigma(win) == DeviationN(win) * DeviationN(win) > 4 * VarianceN2(win)

\* One of the two comparisons is between equal numbers.
OnBoundary(win) ==
    \/ VarianceN2(win) = 2500 * Len(win) * Len(win)
    \/ DeviationN(win) * DeviationN(win) = 4 * VarianceN2(win)

\* The evaluation just made reported a fault.
ReportedFault == contains(status[call.w], DTC)

\* C13 as stated: on a window of at least 5 samples a fault is reported iff the
\* population standard deviation of the window exceeds 0.05 and the new sample
\* deviates from the mean by more than twice that standard deviation; so no
\* window with standard deviation <= 0.05 gives a fault, and the 6th evaluation
\* of 4.0, 4.0, 4.0, 4.0, 4.0, 2.5 reports a fault.
C13_FaultIffTwoSigma ==
    /\ (call.op = "check_status" /\ Len(history[call.w]) >= MinSamples) =>
          /\ ReportedFault <=>
                (StdDevAboveFloor(history[call.w]) /\ DeviatesTwoSigma(history[call.w]))
          /\ ~StdDevAboveFloor(history[call.w]) => ~ReportedFault
    /\ \A w \in BmsWorkers :
          Samples(w) = <<4000, 4000, 4000, 4000, 4000, 2500>> =>
              contains(LastStatus(w), DTC)

\* The same equivalence on the windows where neither comparison is between equal
\* numbers; it holds.
C13_FaultIffTwoSigmaOffBoundary ==
    /\ (call.op = "check_status" /\ Len(history[call.w]) >= MinSamples
                                 /\ ~OnBoundary(history[call.w])) =>
          ReportedFault <=>
              (StdDevAboveFloor(history[call.w]) /\ DeviatesTwoSigma(history[call.w]))
    /\ \A w \in BmsWorkers :
          Samples(w) = <<4000, 4000, 4000, 4000, 4000, 2500>> =>
              contains(LastStatus(w), DTC)

\* The 5th evaluation, on 4.0, 4.0, 4.0, 4.0, 2.5, has reported a fault: the
\* deviation 1.2 is twice the standard deviation 0.6 and not more.
C13_Witness ==
    /\ call.op = "check_status"
    /\ history[call.w] = <<4000, 4000, 4000, 4000, 2500>>
    /\ ~DeviatesTwoSigma(history[call.w])
    /\ ReportedFault

\* The loop of worker w has been aborted.
Aborted(w) == pc[w] = "panicked"

\* The step is the failure of worker w's sink write: the worker leaves the
\* INSERT and the sink has no new record.
WriteFails(w) == pc[w] = "execute" /\ pc'[w] # "execute" /\ sink' = sink

\* C14: a failed sink write aborts the loop of the worker whose write failed, for
\* good: the failure leaves the worker aborted with its entry at the status whose
\* write failed, and no step after it changes the worker's place, evaluates for
\* it, changes its entry or its history, appends a message or a sink record of
\* its identity, or gives it a lock.
C14_FailureAbortsForGood ==
    [][\A w \in Workers :
          /\ WriteFails(w) =>
                /\ Aborted(w)'
                /\ Entries(sensors[w].can_id)' = {LastStatus(w)}
                /\ Len(SinkRowsOf(w))' = Len(evals[w]) - 1
          /\ Aborted(w) =>
                /\ Aborted(w)'
                /\ evals'[w] = evals[w]
                /\ status'[w] = status[w]
                /\ history'[w] = history[w]
                /\ Entries(sensors[w].can_id) = {LastStatus(w)}
                /\ Entries(sensors[w].can_id)' = {LastStatus(w)}
                /\ sink' # sink => sink'[Len(sink')].sensor_id # sensors[w].can_id
                /\ appended' # appended =>
                      SubSeq(appended'[Len(appended')], 1, 3) #
                          log_message(sensors[w].can_id, << >>)
                /\ app_owner' # w /\ db_owner' # w
      ]_vars

\* The sink write of one worker has failed on a status that is in its entry and
\* not in the sink, and another worker is inside its critical section.
C14_Witness ==
    \E w \in Workers :
        /\ \A v \in Workers : Aborted(v) <=> v = w
        /\ db_poisoned
        /\ Len(evals[w]) >= 1
        /\ Entries(sensors[w].can_id) = {LastStatus(w)}
        /\ Len(SinkRowsOf(w)) = Len(evals[w]) - 1
        /\ \E v \in Workers \ {w} : app_owner = v /\ pc[v] = "unlock_app"

\* C15 as stated: a failed sink write is fatal only to the loop of the worker
\* whose write failed: a worker is aborted by no step but the failure of its own
\* sink write.
C15_FailureFatalOnlyToItsWorker ==
    [][\A w \in Workers : (~Aborted(w) /\ Aborted(w)') => WriteFails(w)]_vars

\* What holds instead: once a sink write has failed the sink gets no record any
\* more, and every worker that comes to line 152 is aborted there.
C15_FailureStopsEverySinkWrite ==
    [][db_poisoned =>
          /\ sink' = sink
          /\ \A w \in Workers :
                (pc[w] = "lock_db" /\ pc'[w] # "lock_db") => Aborted(w)'
      ]_vars

\* Two workers are aborted; the second has published a status after the failure
\* of the first one's write and has no sink record of it.
C15_Witness ==
    \E w1, w2 \in Workers :
        /\ w1 # w2
        /\ Aborted(w1) /\ Aborted(w2)
        /\ Entries(sensors[w2].can_id) = {LastStatus(w2)}
        /\ Len(SinkRowsOf(w2)) = Len(evals[w2]) - 1
        /\ Len(SinkRowsOf(w1)) = Len(evals[w1]) - 1

\* Every iteration the bound allows has been started and completed.
AllDone == budget = 0 /\ \A w \in Workers : pc[w] = "sleep"

\* A sink write has failed (the flag is never reset).
SinkWriteFailed == db_poisoned

\* C16: the loops go on as long as no sink write fails: no thread that holds a
\* mutex is waiting for one (no deadlock); unless a sink write fails, every worker
\* is again and again back in its sleep, so every iteration that has started
\* gets both mutexes in turn and completes, with its status published and its sink
\* record written; and, unless a sink write fails, every iteration that the bound
\* on the run allows is started.
C16_LoopsRunOn ==
    /\ [](\A w \in Workers :
            /\ app_owner = w => pc[w] \in {"update", "add_log", "evict", "unlock_app"}
            /\ db_owner = w => pc[w] = "execute"
            /\ pc[w] = "sleep" =>
                  /\ Entries(sensors[w].can_id) = {LastStatus(w)}
                  /\ Len(SinkRowsOf(w)) = Len(evals[w]))
    /\ \A w \in Workers : []<>(pc[w] = "sleep" \/ SinkWriteFailed)
    /\ <>[](AllDone \/ SinkWriteFailed)

\* Contention on both mutexes: a worker waits for the app_state mutex that the
\* foreground thread holds, while another worker holds the db_lock mutex.
C16_Witness ==
    \E w1, w2 \in Workers :
        /\ ~db_poisoned
        /\ pc[w1] = "lock_app" /\ app_owner = Reader
        /\ pc[w2] = "execute" /\ db_owner = w2

\* The step is one of worker w.
StepOf(w) == pc'[w] # pc[w]

\* C17: single writer per identity.  A step of the worker of identity i changes
\* no entry but that of i, and that one only in its update step and to the
\* status it has evaluated; the update step leaves the trouble log as it is, and
\* the worker changes the log only for a fault status, by appending its message
\* (and evicting the oldest one); and it changes no history but that of its own
\* sensor.
C17_SingleWriter ==
    [][\A w \in Workers :
          StepOf(w) =>
            /\ \A v \in Workers \ {w} :
                  /\ Entries(sensors[v].can_id)' = Entries(sensors[v].can_id)
                  /\ history'[v] = history[v]
            /\ Entries(sensors[w].can_id)' # Entries(sensors[w].can_id) =>
                  /\ pc[w] = "update"
                  /\ Entries(sensors[w].can_id)' = {status[w]}
            /\ pc[w] = "update" =>
                  /\ Entries(sensors[w].can_id)' = {status[w]}
                  /\ app'.logs = app.logs
            /\ app'.logs # app.logs =>
                  /\ contains(status[w], DTC)
                  /\ pc[w] \in {"add_log", "evict"}
                  /\ appended' = appended \/
                        app'.logs = Append(app.logs, log_message(sensors[w].can_id, status[w]))
      ]_vars

\* A worker has just overwritten its entry with a nominal status that differs
\* from the one before, while the three other entries hold three other messages
\* and the log is not empty.
C17_Witness ==
    \E w \in Workers :
        /\ pc[w] = "unlock_app"
        /\ ~contains(status[w], DTC)
        /\ Entries(sensors[w].can_id) = {status[w]}
        /\ PrevStatus(w) # status[w]
        /\ app.logs # << >>
        /\ Cardinality(UNION {Entries(sensors[v].can_id) : v \in Workers}) >= 3
        /\ \E v \in BmsWorkers \ {w} : history[v] # << >>

\* The evaluations of worker w whose status update_sensor has written.
Written(w) ==
    IF UpdatePending(w) THEN SubSeq(evals[w], 1, Len(evals[w]) - 1) ELSE evals[w]

\* The number of fault statuses update_sensor has written so far.
FaultsWritten == SumSeq([w \in Workers |-> Len(FaultEvals(Written(w)))])

\* C18: for a fault the status update and the log append are in one critical
\* section: whenever the app_state mutex is free, as many messages have been
\* appended to the trouble log as fault statuses have been written by
\* update_sensor; and whenever the foreground thread holds the mutex, every entry
\* that holds a fault has its message appended, as the last one of its identity.
C18_FaultUpdateAndAppendTogether ==
    /\ app_owner = NoOwner => Len(appended) = FaultsWritten
    /\ app_owner = Reader =>
          /\ Len(appended) = FaultsWritten
          /\ \A w \in Workers :
                \A e \in Entries(sensors[w].can_id) :
                    contains(e, DTC) =>
                        /\ AppendedBy(w) # << >>
                        /\ AppendedBy(w)[Len(AppendedBy(w))] =
                              log_message(sensors[w].can_id, e)

\* The foreground thread has drawn a frame that shows a fault a worker has just
\* published, the message of which is the last of the log, while another worker
\* waits for the mutex with a fault status not yet written.
C18_Witness ==
    /\ rpc = "end_draw"
    /\ \E w, v \in Workers :
          /\ pc[w] = "lock_db"
          /\ contains(status[w], DTC)
          /\ view.status_items[w] = status_item(sensors[w].can_id, status[w])
          /\ view.log_items[Len(view.log_items)] = log_message(sensors[w].can_id, status[w])
          /\ pc[v] = "lock_app"
          /\ contains(status[v], DTC)

\* How many statuses of worker w's identity the shared state has had and the sink
\* has not.
Lag(w) == Len(Written(w)) - Len(SinkRowsOf(w))

\* C19: the sink lags the shared state by at most one status per sensor: for
\* each identity the statuses written by update_sensor are as many as its sink
\* records or one more, and its sink records carry, in order, the statuses
\* written.
C19_SinkLagsByAtMostOne ==
    \A w \in Workers :
        /\ Lag(w) \in {0, 1}
        /\ \A i \in 1..Len(SinkRowsOf(w)) :
              SinkRowsOf(w)[i].message = Written(w)[i].status

\* One worker has published a status and is about to write its record, and
\* another one has all its records written, the last two of them different.
C19_Witness ==
    \E w1, w2 \in Workers :
        /\ pc[w1] = "execute"
        /\ Lag(w1) = 1
        /\ Lag(w2) = 0
        /\ Len(SinkRowsOf(w2)) >= 2
        /\ SinkRowsOf(w2)[Len(SinkRowsOf(w2))] # SinkRowsOf(w2)[Len(SinkRowsOf(w2)) - 1]

\* C20: a worker is aborted only while it does not hold the app_state mutex, so
\* no aborted worker holds it (the mutex is neither kept nor poisoned), and the
\* foreground thread goes on, also after a sink write failure, to take the mutex
\* again and again, each time drawing the status table and the log as they are.
C20_ReaderSurvivesAbort ==
    /\ [][\A w \in Workers :
            (~Aborted(w) /\ Aborted(w)') => (app_owner # w /\ app_owner' # w)]_vars
    /\ [](\A w \in Workers : Aborted(w) => app_owner # w)
    /\ [](rpc = "end_draw" => (app_owner = Reader /\ view = Rendered(app)))
    /\ []<>(rpc = "end_draw")

\* After the failure of a sink write the foreground thread has drawn a frame
\* that shows the status whose write failed.
C20_Witness ==
    /\ SinkWriteFailed
    /\ rpc = "end_draw"
    /\ app_owner = Reader
    /\ \E w \in Workers :
          /\ Aborted(w)
          /\ Len(SinkRowsOf(w)) = Len(evals[w]) - 1
          /\ view.status_items[w] = status_item(sensors[w].can_id, LastStatus(w))
          /\ LastStatus(w) # PrevStatus(w)

====
